---- MODULE Spec2Model ----
(***************************************************************************)
(* A model of Luau's executable code allocator                             *)
(* (CodeGen/src/CodeAllocator.cpp): block reservation, the bump cursor,    *)
(* the unwind-info hook, the W->X page transition and the destructor.      *)
(*                                                                         *)
(* Addresses and sizes are unsigned integers of SizeBits bits.  Memory is  *)
(* a log of the calls the allocator makes to the OS and to the hook; the   *)
(* content of a byte is the source byte of the last write that covers it.  *)
(* LUAU_ASSERT is a check that stops the program when its condition is     *)
(* false; a store to a page that is not READ|WRITE stops it as well.       *)
(***************************************************************************)
EXTENDS Integers, Sequences, FiniteSets, TLC

\* ------------------------------------------------------------ constants --
kPageSize == 4096
\* declared in Luau/CodeAllocator.h; the value is the specification's
kMaxUnwindDataSize == 256
\* the width of size_t and of a pointer; 30 bits keep every sum inside the
\* integers TLC computes with
SizeBits == 30
SizeMod == 2 ^ SizeBits
NULL == 0
\* mmap reports failure as (void*)-1, VirtualAlloc as a null pointer
MAP_FAILED == SizeMod - 1

\* ---------------------------------------------------------------- bounds --
MaxCalls == 3
NumSlots == 2

\* -------------------------------------------------- inputs of the model --
Platforms == {"win32", "posix"}
BlockSizes == {4 * kPageSize}
MaxTotalFactors == {1, 2}
\* <<dataSize, codeSize>> of a call of allocate
Requests ==
    { <<0, 0>>, <<3, 17>>, <<0, 4096>>, <<5, 16112>>, <<0, 16129>> }
\* what the create hook does: the size it writes and reports, and whether it
\* returns a handle
HookOutcomes ==
    { [ok |-> TRUE, size |-> 40], [ok |-> TRUE, size |-> 256],
      [ok |-> FALSE, size |-> 0], [ok |-> FALSE, size |-> 40] }
NoHook == [ok |-> TRUE, size |-> 0]

VARIABLES
    platform,      \* which of the two #if branches was compiled
    hooked,        \* createBlockUnwindInfo / destroyBlockUnwindInfo are set
    blockSize, maxTotalSize,
    blockPos, blockEnd, blocks, unwindInfos,
    rw, rx,        \* pages mapped READ|WRITE, pages mapped READ|EXECUTE
    oslog,         \* calls made to the OS and to the hook, in order
    halted,        \* "no", or the assertion or fault that stopped the program
    calls,         \* number of allocate calls made
    rets,          \* what the successful allocate calls returned
    last,          \* the outcome of the latest operation
    destroyed      \* the destructor has run

cfgvars == <<platform, hooked, blockSize, maxTotalSize>>
vars == <<platform, hooked, blockSize, maxTotalSize, blockPos, blockEnd, blocks,
          unwindInfos, rw, rx, oslog, halted, calls, rets, last, destroyed>>

\* ------------------------------------------------------------ arithmetic --
\* a value of type size_t or uintptr_t
SizeT(x) == x % SizeMod

alignToPageSize(size) ==
    LET s == SizeT(size + kPageSize - 1) IN s - (s % kPageSize)

roundUp16_truncating(x) == x - (x % 16)

\* (x + 15) & ~15
roundUp16(x) ==
    LET s == SizeT(x + 15) IN s - (s % 16)

PageOf(addr) == addr \div kPageSize

\* the pages that hold a byte of [addr, addr + len)
PagesOf(addr, len) ==
    IF len = 0 THEN {} ELSE PageOf(addr) .. PageOf(addr + len - 1)

Event(ev, addr, len, tag) == [ev |-> ev, addr |-> addr, len |-> len, tag |-> tag]

\* the allocator and the machine around it, as one value
Machine ==
    [blockPos |-> blockPos, blockEnd |-> blockEnd, blocks |-> blocks,
     unwindInfos |-> unwindInfos, rw |-> rw, rx |-> rx, oslog |-> oslog,
     halted |-> halted]

Halt(m, why) == [m EXCEPT !.halted = why]

Log(m, e) == [m EXCEPT !.oslog = Append(@, e)]

\* the element of a set of one element
One(S) == CHOOSE y \in S : TRUE

\* LUAU_ASSERT(cond)
Check(m, cond, why) == IF m.halted = "no" /\ ~cond THEN Halt(m, why) ELSE m

\* ---------------------------------------------------------- OS primitives --
SlotBase(slot) == slot * alignToPageSize(blockSize)

\* the address space has room for NumSlots blocks, and for every block the
\* cap allows
SlotCount ==
    IF maxTotalSize \div blockSize > NumSlots
    THEN maxTotalSize \div blockSize ELSE NumSlots

\* the addresses at which the OS can place a new mapping of a block
FreeSlots(m) ==
    { s \in 1 .. SlotCount :
        PagesOf(SlotBase(s), alignToPageSize(blockSize)) \cap (m.rw \cup m.rx) = {} }

OsOutcomes(m) == {0} \cup FreeSlots(m)

\* allocatePages: os = 0 when the OS refuses, else the slot it picks
allocatePagesFailure == IF platform = "win32" THEN NULL ELSE MAP_FAILED

allocatePages(m, size, os) ==
    IF os = 0
    THEN [m |-> Log(m, Event("reserve", allocatePagesFailure, size, <<"os", 0>>)),
          mem |-> allocatePagesFailure]
    ELSE [m |-> Log([m EXCEPT !.rw = @ \cup PagesOf(SlotBase(os), alignToPageSize(size))],
                    Event("reserve", SlotBase(os), size, <<"os", os>>)),
          mem |-> SlotBase(os)]

\* munmap / VirtualFree fail for an address that is not a mapping
freePages(m, mem, size) ==
    IF m.halted # "no" THEN m
    ELSE IF PagesOf(mem, alignToPageSize(size)) \subseteq (m.rw \cup m.rx)
              /\ mem % kPageSize = 0
    THEN Log([m EXCEPT !.rw = @ \ PagesOf(mem, alignToPageSize(size)),
                       !.rx = @ \ PagesOf(mem, alignToPageSize(size))],
             Event("free", mem, size, <<"os", 0>>))
    ELSE Halt(m, "failed to deallocate block memory")

makePagesExecutable_skipped(m, mem, size) == m

makePagesExecutable(m, mem, size) ==
    One({ IF m2.halted # "no" THEN m2
          ELSE IF PagesOf(mem, size) \subseteq (m2.rw \cup m2.rx)
          THEN Log([m2 EXCEPT !.rw = @ \ PagesOf(mem, size),
                              !.rx = @ \cup PagesOf(mem, size)],
                   Event("protect", mem, size, <<"rx", 0>>))
          ELSE Halt(m2, "failed to change page protection") :
          m2 \in { Check(Check(m, mem % kPageSize = 0, "makePagesExecutable: mem aligned"),
                         size = alignToPageSize(size),
                         "makePagesExecutable: size aligned") } })

flushInstructionCache(m, mem, size) ==
    IF m.halted # "no" THEN m ELSE Log(m, Event("flush", mem, size, <<"os", 0>>))

\* a store of len bytes at dst (memcpy, or the hook writing its prelude)
Store(m, dst, len, tag) ==
    IF m.halted # "no" \/ len = 0 THEN m
    ELSE IF PagesOf(dst, len) \subseteq m.rw
    THEN Log(m, Event("write", dst, len, tag))
    ELSE Halt(Log(m, Event("fault", dst, len, tag)), "write fault")

\* ------------------------------------------------------------- the hook --
HandleCount(m) == Len(SelectSeq(m.oslog, LAMBDA e : e.ev = "create"))

\* createBlockUnwindInfo(context, block, blockSize, unwindInfoSize): writes
\* hk.size bytes of unwind data at block and returns a handle or null
createBlockUnwindInfo(m, block, hk) ==
    One({ [m |-> Store(Log(m, Event("create", block, hk.size, <<"handle", h>>)),
                       block, hk.size, <<"hook", HandleCount(m) + 1>>),
           unwindInfo |-> h,
           unwindInfoSize |-> hk.size] :
          h \in { IF hk.ok THEN HandleCount(m) + 1 ELSE NULL } })

\* ---------------------------------------------------------- the allocator --
capReached_offByOne(nblocks) == SizeT(nblocks * blockSize) > maxTotalSize

\* (blocks.size() + 1) * blockSize > maxTotalSize
capReached(nblocks) == SizeT((nblocks + 1) * blockSize) > maxTotalSize

NewBlockResult(m, ok, cause, unwindInfoSize) ==
    [m |-> m, ok |-> ok, cause |-> cause, unwindInfoSize |-> unwindInfoSize]

\* lines 173-184, cr being what the create hook did and returned
unwindInfoResult(cr, unwindInfoSize) ==
    IF cr.m.halted # "no"
    THEN NewBlockResult(cr.m, FALSE, "halt", unwindInfoSize)
    ELSE IF ~(unwindInfoSize <= kMaxUnwindDataSize)
    THEN NewBlockResult(Halt(cr.m, "unwindInfoSize <= kMaxUnwindDataSize"),
                        FALSE, "halt", unwindInfoSize)
    ELSE IF cr.unwindInfo = NULL
    THEN NewBlockResult(cr.m, FALSE, "hook", unwindInfoSize)
    ELSE NewBlockResult([cr.m EXCEPT !.unwindInfos = Append(@, cr.unwindInfo)],
                        TRUE, "none", unwindInfoSize)

\* lines 169-184: the block is the current block already
attachUnwindInfo(m1, block, hk) ==
    IF ~hooked THEN NewBlockResult(m1, TRUE, "none", 0)
    ELSE One({ unwindInfoResult(cr, roundUp16(cr.unwindInfoSize)) :
               cr \in { createBlockUnwindInfo(m1, block, hk) } })

allocateNewBlock_rewinding(m, os, hk) ==
    IF capReached(Len(m.blocks)) THEN NewBlockResult(m, FALSE, "cap", 0)
    ELSE One({ IF ap.mem = NULL THEN NewBlockResult(ap.m, FALSE, "os", 0)
               ELSE attachUnwindInfo([ap.m EXCEPT !.blockPos = Head(Append(m.blocks, ap.mem)),
                                                  !.blockEnd = SizeT(ap.mem + blockSize),
                                                  !.blocks = Append(@, ap.mem)],
                                     ap.mem, hk) :
               ap \in { allocatePages(m, blockSize, os) } })

allocateNewBlock(m, os, hk) ==
    IF capReached(Len(m.blocks)) THEN NewBlockResult(m, FALSE, "cap", 0)
    ELSE One({ IF ap.mem = NULL THEN NewBlockResult(ap.m, FALSE, "os", 0)
               ELSE attachUnwindInfo([ap.m EXCEPT !.blockPos = ap.mem,
                                                  !.blockEnd = SizeT(ap.mem + blockSize),
                                                  !.blocks = Append(@, ap.mem)],
                                     ap.mem, hk) :
               ap \in { allocatePages(m, blockSize, os) } })

\* totalSize > blockSize - kMaxUnwindDataSize
tooLarge(totalSize) == totalSize > SizeT(blockSize - kMaxUnwindDataSize)

needsNewBlock_always(m, totalSize) == TRUE

\* totalSize > size_t(blockEnd - blockPos)
needsNewBlock(m, totalSize) == totalSize > SizeT(m.blockEnd - m.blockPos)

dataOffsetOf_overPrelude(unwindInfoSize, alignedDataSize, dataSize) ==
    SizeT(alignedDataSize - dataSize)

dataOffsetOf_rightPadded(unwindInfoSize, alignedDataSize, dataSize) ==
    unwindInfoSize

dataOffsetOf(unwindInfoSize, alignedDataSize, dataSize) ==
    SizeT(unwindInfoSize + alignedDataSize - dataSize)

codeOffsetOf(unwindInfoSize, alignedDataSize) ==
    SizeT(unwindInfoSize + alignedDataSize)

pageSizeOf_nextPage(unwindInfoSize, totalSize) ==
    SizeT((SizeT(unwindInfoSize + totalSize) \div kPageSize + 1) * kPageSize)

pageSizeOf_noPrelude(unwindInfoSize, totalSize) ==
    alignToPageSize(totalSize)

pageSizeOf(unwindInfoSize, totalSize) ==
    alignToPageSize(SizeT(unwindInfoSize + totalSize))

\* pos is the cursor the layout was computed from
AllocResult(m, ok, cause, newBlock, unwindInfoSize, pos, result, resultSize, resultCodeStart) ==
    [m |-> m, ok |-> ok, cause |-> cause, newBlock |-> newBlock,
     unwindInfoSize |-> unwindInfoSize, pos |-> pos, result |-> result,
     resultSize |-> resultSize, resultCodeStart |-> resultCodeStart]

RECURSIVE destroyAll(_, _)
destroyAll(m, infos) ==
    IF infos = <<>> THEN m
    ELSE destroyAll(Log(m, Event("destroy", NULL, 0, <<"handle", Head(infos)>>)),
                    Tail(infos))

RECURSIVE freeAll(_, _)
freeAll(m, bs) ==
    IF bs = <<>> THEN m
    ELSE freeAll(freePages(m, Head(bs), blockSize), Tail(bs))

destructor_blocksFirst(m) ==
    IF hooked THEN destroyAll(freeAll(m, m.blocks), m.unwindInfos)
    ELSE freeAll(m, m.blocks)

\* ~CodeAllocator
destructor(m) ==
    freeAll(IF hooked THEN destroyAll(m, m.unwindInfos) ELSE m, m.blocks)

\* ------------------------------------------------------------- the system --
NoLast ==
    [op |-> "none", ok |-> TRUE, cause |-> "none", newBlock |-> FALSE,
     dataSize |-> 0, codeSize |-> 0, unwindInfoSize |-> 0, hookSize |-> 0,
     logLen |-> 0,
     pre |-> [blockPos |-> NULL, blockEnd |-> NULL, blocks |-> <<>>,
              unwindInfos |-> <<>>]]

InitWith(bsizes, factors, hooks, plats) ==
    /\ platform \in plats
    /\ hooked \in hooks
    /\ blockSize \in bsizes
    /\ maxTotalSize \in { f * blockSize : f \in factors }
    /\ blockPos = NULL
    /\ blockEnd = NULL
    /\ blocks = <<>>
    /\ unwindInfos = <<>>
    /\ rw = {}
    /\ rx = {}
    /\ oslog = <<>>
    /\ halted = "no"
    /\ calls = 0
    /\ rets = <<>>
    /\ last = NoLast
    /\ destroyed = FALSE

Init == InitWith(BlockSizes, MaxTotalFactors, BOOLEAN, Platforms)

\* the Windows build alone
InitWin32 == InitWith(BlockSizes, MaxTotalFactors, BOOLEAN, {"win32"})

Install(m) ==
    /\ blockPos' = m.blockPos
    /\ blockEnd' = m.blockEnd
    /\ blocks' = m.blocks
    /\ unwindInfos' = m.unwindInfos
    /\ rw' = m.rw
    /\ rx' = m.rx
    /\ oslog' = m.oslog
    /\ halted' = m.halted

Pre ==
    [blockPos |-> blockPos, blockEnd |-> blockEnd, blocks |-> blocks,
     unwindInfos |-> unwindInfos]

\* allocate hands r back to the caller, who made the call with req and met hk
Return(req, hk, r) ==
    /\ Install(r.m)
    /\ calls' = calls + 1
    /\ last' = [op |-> "allocate", ok |-> r.ok, cause |-> r.cause,
                newBlock |-> r.newBlock, dataSize |-> req[1],
                codeSize |-> req[2], unwindInfoSize |-> r.unwindInfoSize,
                hookSize |-> hk.size, logLen |-> Len(oslog), pre |-> Pre]
    /\ rets' = IF r.ok
               THEN Append(rets, [id |-> calls + 1, result |-> r.result,
                                  resultSize |-> r.resultSize,
                                  resultCodeStart |-> r.resultCodeStart,
                                  dataSize |-> req[1], codeSize |-> req[2],
                                  unwindInfoSize |-> r.unwindInfoSize,
                                  newBlock |-> r.newBlock,
                                  hookSize |-> hk.size,
                                  prePos |-> blockPos, pos |-> r.pos,
                                  block |-> IF r.m.blocks = <<>> THEN NULL
                                            ELSE r.m.blocks[Len(r.m.blocks)],
                                  logLen |-> Len(r.m.oslog)])
               ELSE rets
    /\ UNCHANGED <<cfgvars, destroyed>>

\* allocate from line 128 on, m0 being the allocator after the new-block
\* decision
publish(req, hk, m0, totalSize, alignedDataSize, unwindInfoSize, newBlock) ==
    \E dataOffset \in { dataOffsetOf(unwindInfoSize, alignedDataSize, req[1]) } :
    \E codeOffset \in { codeOffsetOf(unwindInfoSize, alignedDataSize) } :
    \E m1 \in { Check(m0, m0.blockPos % kPageSize = 0,
                      "allocation starts on page boundary") } :
    \E m2 \in { Store(m1, SizeT(m1.blockPos + dataOffset), req[1],
                      <<"data", calls + 1>>) } :
    \E m3 \in { Store(m2, SizeT(m2.blockPos + codeOffset), req[2],
                      <<"code", calls + 1>>) } :
    \E pageSize \in { pageSizeOf(unwindInfoSize, totalSize) } :
    \E m4 \in { makePagesExecutable(m3, m3.blockPos, pageSize) } :
    \E m5 \in { flushInstructionCache(m4, SizeT(m4.blockPos + codeOffset), req[2]) } :
    \E m6 \in { IF m5.halted # "no" THEN m5
                ELSE [m5 EXCEPT !.blockPos = SizeT(@ + pageSize)] } :
    \E m7 \in { Check(m6, m6.blockPos % kPageSize = 0,
                      "allocation ends on page boundary") } :
        IF m7.halted # "no"
        THEN Return(req, hk, AllocResult(m7, FALSE, "halt", newBlock, unwindInfoSize,
                                         NULL, NULL, 0, NULL))
        ELSE Return(req, hk, AllocResult(m7, TRUE, "none", newBlock, unwindInfoSize,
                                         m5.blockPos,
                                         SizeT(m5.blockPos + unwindInfoSize),
                                         totalSize,
                                         SizeT(m5.blockPos + codeOffset)))

\* CodeAllocator::allocate(data, req[1], code, req[2], ...), os and hk being
\* what allocatePages and the create hook do if the call reaches them
allocate(req, os, hk) ==
    \E alignedDataSize \in { roundUp16(req[1]) } :
    \E totalSize \in { SizeT(alignedDataSize + req[2]) } :
        IF tooLarge(totalSize)
        THEN Return(req, hk, AllocResult(Machine, FALSE, "oversize", FALSE, 0,
                                         NULL, NULL, 0, NULL))
        ELSE IF needsNewBlock(Machine, totalSize)
        THEN \E nb \in { allocateNewBlock(Machine, os, hk) } :
                IF ~nb.ok
                THEN Return(req, hk, AllocResult(nb.m, FALSE, nb.cause, TRUE, 0,
                                                 NULL, NULL, 0, NULL))
                ELSE publish(req, hk,
                             Check(nb.m,
                                   totalSize <= SizeT(nb.m.blockEnd - nb.m.blockPos),
                                   "totalSize <= blockEnd - blockPos"),
                             totalSize, alignedDataSize, nb.unwindInfoSize, TRUE)
        ELSE publish(req, hk, Machine, totalSize, alignedDataSize, 0, FALSE)

\* the call reaches allocatePages / the create hook, so that their outcome
\* is an input of the step
ReachesOs(req) ==
    LET totalSize == SizeT(roundUp16(req[1]) + req[2])
    IN  /\ ~tooLarge(totalSize)
        /\ needsNewBlock(Machine, totalSize)
        /\ ~capReached(Len(blocks))

ReachesHook(req, os) ==
    ReachesOs(req) /\ hooked /\ allocatePages(Machine, blockSize, os).mem # NULL

\* a caller makes one more call of allocate, of at most n calls
AllocateWithin(reqs, n) ==
    /\ halted = "no"
    /\ ~destroyed
    /\ calls < n
    /\ \E req \in reqs :
         \E os \in (IF ReachesOs(req) THEN OsOutcomes(Machine) ELSE {0}) :
           \E hk \in (IF ReachesHook(req, os) THEN HookOutcomes ELSE {NoHook}) :
             allocate(req, os, hk)

Allocate(reqs) == AllocateWithin(reqs, MaxCalls)

Destroy ==
    /\ halted = "no"
    /\ ~destroyed
    /\ \E m \in { destructor(Machine) } : Install(m)
    /\ destroyed' = TRUE
    /\ last' = [NoLast EXCEPT !.op = "destroy", !.logLen = Len(oslog), !.pre = Pre]
    /\ UNCHANGED <<cfgvars, calls, rets>>

Next == Allocate(Requests) \/ Destroy

Spec == Init /\ [][Next]_vars

SpecWin32 == InitWin32 /\ [][Next]_vars

\* scenario S4: 4-page blocks, a cap of 16 pages, no hook, and a caller that
\* asks for one page of code again and again
S4Calls == 17
S4Request == <<0, 4096>>

InitS4 == InitWith({4 * kPageSize}, {4}, {FALSE}, Platforms)

AllocateS4 == AllocateWithin({S4Request}, S4Calls)

NextS4 == AllocateS4 \/ Destroy

SpecS4 == InitS4 /\ [][NextS4]_vars

\* scenarios S1 and S2, and requests of two and three pages that leave a
\* block with unused pages behind
RequestsLayout == { <<0, 17>>, <<3, 1>>, <<0, 2 * kPageSize>>, <<0, 3 * kPageSize>> }

AllocateLayout == AllocateWithin(RequestsLayout, MaxCalls)

NextLayout == AllocateLayout \/ Destroy

SpecLayout == Init /\ [][NextLayout]_vars

\* a block size the constructor accepts that is no multiple of the page size
BlockSizesUnaligned == {kPageSize + kPageSize \div 2}
RequestsUnaligned == { <<0, 17>>, <<3, 17>>, <<0, 5000>> }

InitUnaligned == InitWith(BlockSizesUnaligned, MaxTotalFactors, BOOLEAN, Platforms)

AllocateUnaligned == AllocateWithin(RequestsUnaligned, MaxCalls)

NextUnaligned == AllocateUnaligned \/ Destroy

SpecUnaligned == InitUnaligned /\ [][NextUnaligned]_vars

\* callers that pass sizes near the largest value of size_t
RequestsWide ==
    { <<SizeMod - 1, 17>>, <<16, SizeMod - 16>>, <<3, 17>>, <<0, 4096>> }

AllocateWide == AllocateWithin(RequestsWide, MaxCalls)

NextWide == AllocateWide \/ Destroy

SpecWide == Init /\ [][NextWide]_vars

\* ------------------------------------------------------------ properties --
AllocatorState ==
    [blockPos |-> blockPos, blockEnd |-> blockEnd, blocks |-> blocks,
     unwindInfos |-> unwindInfos]

\* the latest operation was an allocate that returned false
ReturnedFailure == last.op = "allocate" /\ ~last.ok /\ last.cause # "halt"

\* the calls the latest operation made to the OS and the hook
LastEvents == SubSeq(oslog, last.logLen + 1, Len(oslog))

RetIds == DOMAIN rets

Disjoint(a, alen, b, blen) ==
    alen = 0 \/ blen = 0 \/ a + alen <= b \/ b + blen <= a

\* the least multiple of 16 that is at least x
Up16(x) == CHOOSE k \in x .. x + 15 : k % 16 = 0

\* C1: whenever allocate returns failure, blockPos, blockEnd, the owned
\* blocks and the unwind handles are what they were before the call.
C1_FailureLeavesStateUnchanged ==
    ReturnedFailure => AllocatorState = last.pre

\* C2: the ranges [baseAddr, baseAddr + totalBytes) returned by successful
\* allocate calls are pairwise disjoint.
C2_NonOverlap ==
    \A i, j \in RetIds :
        i < j => Disjoint(rets[i].result, rets[i].resultSize,
                          rets[j].result, rets[j].resultSize)

\* two non-empty ranges were returned from one block, the second of them
\* after a call that failed
C2_Witness ==
    /\ Len(rets) >= 2
    /\ rets[1].resultSize > 0
    /\ rets[2].resultSize > 0
    /\ rets[2].block = rets[1].block
    /\ rets[2].unwindInfoSize = 0
    /\ rets[1].unwindInfoSize > 0
    /\ rets[2].id > rets[1].id + 1

\* C4: blocks.size() * blockSize <= maxTotalSize in every state; an allocate
\* that needs a block the cap forbids returns failure, calls neither the OS
\* nor the hook and leaves the allocator as it was.
C4_Cap ==
    /\ Len(blocks) * blockSize <= maxTotalSize
    /\ (last.op = "allocate" /\ last.newBlock
            /\ (Len(last.pre.blocks) + 1) * blockSize > maxTotalSize)
        => /\ ~last.ok
           /\ halted = "no"
           /\ LastEvents = <<>>
           /\ AllocatorState = last.pre

\* the cap refused a block while one of the owned blocks is a block whose
\* create hook returned null
C4_Witness ==
    /\ last.op = "allocate" /\ last.cause = "cap"
    /\ Len(blocks) * blockSize = maxTotalSize
    /\ Len(unwindInfos) < Len(blocks)
    /\ hooked

\* C5: codeAddr is a multiple of 16; baseAddr is a multiple of 16 when the
\* call did not start a block with an unwind prelude, and is the block start
\* plus the hook-reported size rounded up to 16 when it did.
C5_Alignment ==
    \A i \in RetIds :
        LET r == rets[i] IN
        /\ r.resultCodeStart % 16 = 0
        /\ ~(r.newBlock /\ hooked) => r.result % 16 = 0
        /\ (r.newBlock /\ hooked) => r.result = r.block + Up16(r.hookSize)

\* a block was started with a 40 byte prelude by a request whose dataSize is
\* no multiple of 16, and a later request was placed behind it
C5_Witness ==
    \E i, j \in RetIds :
        /\ rets[i].newBlock /\ rets[i].hookSize = 40 /\ rets[i].dataSize % 16 # 0
        /\ rets[i].result = rets[i].block + 48
        /\ i < j /\ ~rets[j].newBlock /\ rets[j].dataSize % 16 # 0

\* ----------------------------------------------------------------- memory --
IsWrite(k) == oslog[k].ev = "write"

Covers(k, addr) == oslog[k].addr <= addr /\ addr < oslog[k].addr + oslog[k].len

\* the byte at addr: which byte of which source the last store put there
ReadByte(addr) ==
    LET ws == { k \in DOMAIN oslog : IsWrite(k) /\ Covers(k, addr) }
    IN  IF ws = {} THEN <<"none", 0, 0>>
        ELSE LET w == CHOOSE k \in ws : \A l \in ws : l <= k
             IN  <<oslog[w].tag[1], oslog[w].tag[2], addr - oslog[w].addr>>

\* The offsets of [addr, addr + len) at which the stored content can change
\* its source: the ends of the range and the ends of every store.  Between
\* two of them the last store is the same one, so the range holds a source
\* at every offset if and only if it holds it at these offsets.
Probes(addr, len) ==
    LET cand == {addr, addr + len - 1} \cup
                UNION { {oslog[k].addr - 1, oslog[k].addr,
                         oslog[k].addr + oslog[k].len - 1,
                         oslog[k].addr + oslog[k].len} :
                        k \in { l \in DOMAIN oslog : IsWrite(l) } }
    IN  { a - addr : a \in { c \in cand : addr <= c /\ c < addr + len } }

\* [addr, addr + len) holds the bytes 0 .. len-1 of the source (kind, id)
Holds(addr, len, kind, id) ==
    \A i \in Probes(addr, len) : ReadByte(addr + i) = <<kind, id, i>>

\* C3: pages of the active block below blockPos are READ|EXECUTE and those
\* of [blockPos, blockEnd) are READ|WRITE; every store (data, code, the
\* hook's prelude) goes to READ|WRITE pages; the pages of a returned range
\* are READ|EXECUTE and no later store touches them.
C3_WriteXorExecute ==
    /\ (blocks # <<>> /\ ~destroyed) =>
          LET b == blocks[Len(blocks)] IN
          /\ PagesOf(b, blockPos - b) \subseteq rx
          /\ PagesOf(blockPos, blockEnd - blockPos) \subseteq rw
    /\ \A k \in DOMAIN oslog : oslog[k].ev # "fault"
    /\ \A i \in RetIds :
          /\ ~destroyed => PagesOf(rets[i].result, rets[i].resultSize) \subseteq rx
          /\ \A k \in DOMAIN oslog :
                (k > rets[i].logLen /\ oslog[k].ev \in {"write", "fault"})
                => PagesOf(oslog[k].addr, oslog[k].len)
                     \cap PagesOf(rets[i].result, rets[i].resultSize) = {}

\* C6: the returned triple is laid out from the cursor as
\* (pos + unwindInfoSize, roundUp16(dataSize) + codeSize, base + roundUp16(dataSize)),
\* the code bytes are at codeAddr and the data bytes end at codeAddr, and
\* they are still there after every later allocate.
C6_LayoutAndContent ==
    \A i \in RetIds :
        LET r == rets[i] IN
        /\ r.pos = (IF r.newBlock THEN r.block ELSE r.prePos)
        /\ r.result = r.pos + r.unwindInfoSize
        /\ r.resultSize = Up16(r.dataSize) + r.codeSize
        /\ r.resultCodeStart = r.result + Up16(r.dataSize)
        /\ ~destroyed =>
             /\ Holds(r.resultCodeStart, r.codeSize, "code", r.id)
             /\ Holds(r.resultCodeStart - r.dataSize, r.dataSize, "data", r.id)

\* a range with data and code was returned, and since then a call failed and
\* a later call was served from another block
C6_Witness ==
    \E i, j \in RetIds :
        /\ i < j
        /\ rets[i].dataSize > 0 /\ rets[i].codeSize > 0
        /\ rets[j].block # rets[i].block
        /\ rets[j].id > rets[i].id + 1
        /\ ~destroyed

\* the indices of the events of the given kind in the log
EventsOf(ev) == { k \in DOMAIN oslog : oslog[k].ev = ev }

\* C7: after the destructor every handle the hook returned was destroyed
\* exactly once, every block reserved from the OS was unreserved exactly
\* once, and every destroy came before every unreserve.
C7_Teardown ==
    destroyed =>
      /\ \A c \in EventsOf("create") :
            oslog[c].tag[2] # NULL =>
              Cardinality({ d \in EventsOf("destroy") : oslog[d].tag = oslog[c].tag }) = 1
      /\ \A v \in EventsOf("reserve") :
            oslog[v].tag[2] # 0 =>
              Cardinality({ f \in EventsOf("free") : oslog[f].addr = oslog[v].addr }) = 1
      /\ \A d \in EventsOf("destroy") : \A f \in EventsOf("free") : d < f

\* the destructor ran on an allocator with two blocks, one with a handle and
\* one whose create hook returned null
C7_Witness ==
    /\ destroyed
    /\ Cardinality(EventsOf("free")) = 2
    /\ Cardinality(EventsOf("destroy")) = 1
    /\ \E c \in EventsOf("create") : oslog[c].tag[2] = NULL

\* the request of the latest allocate, as the guard of line 114 sees it
LastTotal == Up16(last.dataSize) + last.codeSize

LastOversize == LastTotal > blockSize - kMaxUnwindDataSize

LastFits == LastTotal <= SizeT(last.pre.blockEnd - last.pre.blockPos)

\* the new block of the latest allocate was refused by the cap, the OS or the hook
LastRefused ==
    \/ (Len(last.pre.blocks) + 1) * blockSize > maxTotalSize
    \/ \E k \in DOMAIN LastEvents :
          \/ LastEvents[k].ev = "reserve" /\ LastEvents[k].tag[2] = 0
          \/ LastEvents[k].ev = "create" /\ LastEvents[k].tag[2] = NULL

\* C8: allocate returns failure exactly when the request is larger than
\* blockSize - kMaxUnwindDataSize (then without any call to the OS or the
\* hook), or it does not fit in [blockPos, blockEnd) and the new block is
\* refused by the cap, the OS or the hook; every other request succeeds,
\* and the assertion after allocateNewBlock never fails.
C8_FailureConditions ==
    /\ halted # "totalSize <= blockEnd - blockPos"
    /\ last.op = "allocate" =>
          /\ LastOversize => (ReturnedFailure /\ LastEvents = <<>>)
          /\ ~LastOversize =>
                /\ ReturnedFailure <=> (~LastFits /\ LastRefused)
                /\ last.ok <=> (LastFits \/ ~LastRefused)

AssertionsOfC9 ==
    { "allocation starts on page boundary", "allocation ends on page boundary",
      "makePagesExecutable: mem aligned", "makePagesExecutable: size aligned" }

\* C9: blockPos and blockEnd are both null, or both page-aligned addresses
\* of the current block with blockPos <= blockEnd; none of the alignment
\* assertions of allocate and makePagesExecutable fails.
C9_PageAlignedCursor ==
    /\ \/ blockPos = NULL /\ blockEnd = NULL
       \/ /\ blocks # <<>>
          /\ blockPos % kPageSize = 0
          /\ blockEnd % kPageSize = 0
          /\ blocks[Len(blocks)] <= blockPos
          /\ blockPos <= blockEnd
          /\ blockEnd = blocks[Len(blocks)] + blockSize
    /\ halted \notin AssertionsOfC9

\* the blocks that hold the whole span of a returned allocation, from the
\* cursor it was laid out at through its last code byte
BlocksHolding(r) ==
    { k \in DOMAIN blocks :
        /\ blocks[k] <= r.pos
        /\ blocks[k] <= r.result /\ r.result < blocks[k] + blockSize
        /\ blocks[k] <= r.resultCodeStart /\ r.resultCodeStart < blocks[k] + blockSize
        /\ r.resultCodeStart + r.codeSize <= blocks[k] + blockSize }

\* C10: baseAddr and codeAddr of every successful allocate point inside
\* exactly one owned block, which holds the whole span of the allocation.
C10_InsideOneBlock ==
    \A i \in RetIds : Cardinality(BlocksHolding(rets[i])) = 1

\* ------------------------------------------- what remains true of the code --
\* the OS granted every reservation asked of it so far
EveryReservationGranted ==
    \A k \in EventsOf("reserve") : oslog[k].tag[2] # 0

\* C1, for the failures that are not the create hook's: a request that is
\* too large or a block the cap or the OS refuses changes nothing.
C1_ExceptHookFailure ==
    (ReturnedFailure /\ last.cause # "hook") => AllocatorState = last.pre

\* C3, C8 and C9 in the runs in which no reservation was refused
C3_WhenReservationsGranted == EveryReservationGranted => C3_WriteXorExecute

C8_WhenReservationsGranted == EveryReservationGranted => C8_FailureConditions

C9_WhenReservationsGranted == EveryReservationGranted => C9_PageAlignedCursor

\* C10 for the requests that ask for at least one byte
C10_NonEmptyRequests ==
    \A i \in RetIds :
        rets[i].resultSize > 0 => Cardinality(BlocksHolding(rets[i])) = 1
\* -------------------------------------------------------------- scenarios --
\* the call with the given number returned success
Succeeded(id) == \E i \in RetIds : rets[i].id = id

\* C11 as stated: in scenario S4 each of the first four calls succeeds in a
\* block it reserves itself, and the fifth call fails.
C11_S4_AsStated ==
    EveryReservationGranted =>
        /\ \A i \in RetIds : rets[i].id <= 4 => rets[i].newBlock
        /\ ~Succeeded(5)
        /\ (calls >= 5 /\ halted = "no") => \A k \in 1 .. 4 : Succeeded(k)

\* C11: in scenario S4 a block serves four calls, one page each: the calls
\* that succeed reserve a block at every fourth success only, the first
\* sixteen calls succeed when the OS grants the four blocks, and a call
\* fails because of the cap exactly when sixteen calls have succeeded.
C11_S4 ==
    /\ \A i \in RetIds :
          /\ rets[i].newBlock <=> (i % 4 = 1)
          /\ rets[i].result = rets[i].block + ((i - 1) % 4) * kPageSize
          /\ i % 4 # 1 => rets[i].block = rets[i - 1].block
    /\ (EveryReservationGranted /\ halted = "no") =>
          Len(rets) = (IF calls <= 16 THEN calls ELSE 16)
    /\ (last.op = "allocate" /\ halted = "no") =>
          (last.cause = "cap" <=> Len(last.pre.blocks) = 4
                                    /\ last.pre.blockPos = last.pre.blockEnd)
    /\ Len(rets) <= 16

\* sixteen calls filled four blocks and the seventeenth was refused by the cap
C11_Witness ==
    /\ calls = 17 /\ Len(rets) = 16 /\ Len(blocks) = 4
    /\ last.op = "allocate" /\ ~last.ok /\ last.cause = "cap"
    /\ rets[5].newBlock /\ ~rets[4].newBlock
\* ------------------------------------------------------------ unwind info --
\* C12: unwindInfos has as many entries as blocks when the hook pair is
\* configured and none when it is not, in every state, also after a create
\* hook returned null.
C12_UnwindInfosCount ==
    Len(unwindInfos) = (IF hooked THEN Len(blocks) ELSE 0)

\* C12 where no create hook returned null and no reservation was refused
C12_WhenEveryBlockGotItsHandle ==
    (EveryReservationGranted
        /\ \A c \in EventsOf("create") : oslog[c].tag[2] # NULL)
    => (halted = "no" => C12_UnwindInfosCount)

\* the k-th invocation of the create hook, as an index of the log
NthCreate(k) ==
    CHOOSE c \in EventsOf("create") :
        Cardinality({ d \in EventsOf("create") : d <= c }) = k

\* the hook invoked at log index c came back with a null pointer
ReturnedNull(c) ==
    /\ oslog[c].tag[2] = NULL
    /\ ~(c + 1 \in DOMAIN oslog /\ oslog[c + 1].ev = "fault")

\* the hook gave a handle for the first block and null at its second invocation
S6 ==
    /\ Cardinality(EventsOf("create")) >= 2
    /\ oslog[NthCreate(1)].tag[2] # NULL
    /\ ReturnedNull(NthCreate(2))

\* the ranges returned from the first block of scenario S6
FirstBlockRanges == { i \in RetIds : rets[i].block = oslog[NthCreate(1)].addr }

\* C13: in scenario S6 the allocate during which the hook returned null
\* returns failure, and every range returned from the first block keeps its
\* code and data bytes, is READ|EXECUTE and lies in a block that the
\* allocator owns and that is still mapped, then and after later calls.
C13_S6 ==
    S6 =>
      /\ (last.op = "allocate" /\ NthCreate(2) > last.logLen) => ReturnedFailure
      /\ ~destroyed =>
            \A i \in FirstBlockRanges :
               LET r == rets[i] IN
               /\ Holds(r.resultCodeStart, r.codeSize, "code", r.id)
               /\ Holds(r.resultCodeStart - r.dataSize, r.dataSize, "data", r.id)
               /\ PagesOf(r.result, r.resultSize) \subseteq rx
               /\ \E k \in DOMAIN blocks :
                     /\ blocks[k] = r.block
                     /\ r.block <= r.result
                     /\ r.result + r.resultSize <= r.block + blockSize
                     /\ PagesOf(r.block, blockSize) \subseteq (rw \cup rx)

\* a range with data and code was returned from the first block, the call
\* for the second block failed on the hook, and a later call succeeded
C13_Witness ==
    /\ S6 /\ ~destroyed /\ halted = "no"
    /\ \E i \in FirstBlockRanges : rets[i].dataSize > 0 /\ rets[i].codeSize > 0
    /\ last.op = "allocate" /\ last.ok
    /\ NthCreate(2) <= last.logLen
    /\ rets[Len(rets)].block = oslog[NthCreate(2)].addr
\* a store of data or code bytes by allocate
IsCopy(k) == IsWrite(k) /\ oslog[k].tag[1] \in {"data", "code"}

\* the reservations the OS granted
Granted == { v \in EventsOf("reserve") : oslog[v].tag[2] # 0 }

\* C14: the create hook is invoked once for every reserved block, as the
\* next thing after the reservation and before any data or code is copied
\* into the block, for nothing but a reserved block, and never by an
\* allocate that fits in [blockPos, blockEnd); only the allocation that
\* started a block is laid out with a non-zero unwindInfoSize.
C14_HookOncePerBlock ==
    /\ ~hooked => EventsOf("create") = {}
    /\ hooked =>
          /\ \A v \in Granted :
                /\ v + 1 \in EventsOf("create")
                /\ oslog[v + 1].addr = oslog[v].addr
                /\ Cardinality({ c \in EventsOf("create") :
                                   oslog[c].addr = oslog[v].addr }) = 1
          /\ \A c \in EventsOf("create") :
                /\ c - 1 \in Granted
                /\ \A k \in DOMAIN oslog :
                      (IsCopy(k) /\ k < c)
                      => Disjoint(oslog[k].addr, oslog[k].len, oslog[c].addr, blockSize)
    /\ (last.op = "allocate" /\ (LastFits \/ LastOversize)) =>
          \A k \in DOMAIN LastEvents : LastEvents[k].ev # "create"
    /\ \A i \in RetIds :
          /\ rets[i].unwindInfoSize # 0 => rets[i].newBlock
          /\ (rets[i].newBlock /\ hooked) => rets[i].unwindInfoSize = Up16(rets[i].hookSize)

\* C14 in the runs in which no reservation was refused
C14_WhenReservationsGranted == EveryReservationGranted => C14_HookOncePerBlock

\* the invocations of the create hook that returned, and returned a handle
Handles ==
    { c \in EventsOf("create") :
        /\ oslog[c].tag[2] # NULL
        /\ ~(c + 1 \in DOMAIN oslog /\ oslog[c + 1].ev = "fault") }

\* C15: of a block whose create hook returned a handle and reported s bytes,
\* the bytes [block, block + roundUp16(s)) overlap no returned range and no
\* store of data or code, and still hold what the hook wrote; the data of
\* the block's first allocation starts at or after them;
\* roundUp16(s) <= kMaxUnwindDataSize, and the allocation that started the
\* block ends inside it.
C15_Prelude ==
    \A c \in Handles :
        LET b == oslog[c].addr
            s == Up16(oslog[c].len)
        IN  /\ s <= kMaxUnwindDataSize
            /\ \A i \in RetIds :
                  /\ Disjoint(b, s, rets[i].result, rets[i].resultSize)
                  /\ rets[i].block = b =>
                        /\ rets[i].resultCodeStart - rets[i].dataSize >= b + s
                        /\ rets[i].result + rets[i].resultSize <= b + blockSize
            /\ \A k \in DOMAIN oslog :
                  IsCopy(k) => Disjoint(b, s, oslog[k].addr, oslog[k].len)
            /\ ~destroyed => Holds(b, oslog[c].len, "hook", oslog[c].tag[2])

\* one block has a 256 byte prelude and the largest request behind it, up
\* to the end of the block; another has a 40 byte prelude and data behind it
C15_Witness ==
    \E i, j \in RetIds :
        /\ rets[i].newBlock /\ rets[i].hookSize = 256
        /\ rets[i].result + rets[i].resultSize = rets[i].block + blockSize
        /\ rets[j].newBlock /\ rets[j].hookSize = 40 /\ rets[j].dataSize > 0
        /\ rets[j].resultCodeStart - rets[j].dataSize < rets[j].block + 64
        /\ Cardinality(Handles) = 2

\* C18: with a hook configured, every range returned by allocate lies in a
\* block for which the create hook returned a handle that unwindInfos holds.
C18_PublishedBlocksHaveHandles ==
    hooked =>
      \A i \in RetIds :
         rets[i].resultSize > 0 =>
           \E c \in Handles :
              /\ oslog[c].addr = rets[i].block
              /\ \E u \in DOMAIN unwindInfos : unwindInfos[u] = oslog[c].tag[2]

\* C18 in the runs in which no create hook returned null
C18_WhenNoHookFailed ==
    (\A c \in EventsOf("create") : oslog[c].tag[2] # NULL)
    => C18_PublishedBlocksHaveHandles
\* ----------------------------------------------------------------- cursor --
\* the least multiple of kPageSize that is at least x
UpPage(x) == ((x + kPageSize - 1) \div kPageSize) * kPageSize

\* the latest successful allocate is the call S1, allocate(0, 17) on a fresh
\* allocator, or the call S2 that follows it, allocate(3, 1)
IsS1(i) == rets[i].id = 1 /\ rets[i].dataSize = 0 /\ rets[i].codeSize = 17

IsS2(i) ==
    /\ i = 2 /\ IsS1(1)
    /\ rets[i].id = 2 /\ rets[i].dataSize = 3 /\ rets[i].codeSize = 1

\* C16: a successful allocate leaves blockPos at the cursor it was laid out
\* from plus unwindInfoSize + roundUp16(dataSize) + codeSize rounded up to
\* the page size; a call that passed the size guard asks for a new block if
\* and only if roundUp16(dataSize) + codeSize > blockEnd - blockPos; S1
\* advances the cursor of the new block by 4096, and S2 is placed in the
\* same block at the next page, its data at base + 13 and its code at
\* base + 16.
C16_CursorAdvance ==
    /\ (last.op = "allocate" /\ last.ok) =>
          LET r == rets[Len(rets)] IN
          /\ r.pos = (IF last.newBlock THEN r.block ELSE last.pre.blockPos)
          /\ blockPos = r.pos + UpPage(r.unwindInfoSize + Up16(r.dataSize) + r.codeSize)
    /\ (last.op = "allocate" /\ ~LastOversize) => (last.newBlock <=> ~LastFits)
    /\ \A i \in RetIds :
          /\ (IsS1(i) /\ calls = 1) => blockPos = rets[i].block + kPageSize
          /\ IsS2(i) =>
                /\ ~rets[i].newBlock
                /\ rets[i].block = rets[1].block
                /\ rets[i].result = rets[i].block + kPageSize
                /\ rets[i].resultCodeStart = rets[i].result + 16
                /\ ~destroyed => Holds(rets[i].result + 13, 3, "data", rets[i].id)

\* S1 and S2 were called on an allocator without hook, and a third call
\* with a prelude-free layout followed
C16_Witness ==
    /\ ~hooked /\ Len(rets) = 3 /\ IsS2(2) /\ ~destroyed
    /\ rets[3].codeSize = 2 * kPageSize

\* the returned range lies in the k-th block
InBlock(r, k) ==
    blocks[k] <= r.result /\ r.result + r.resultSize <= blocks[k] + blockSize

\* C17: while the allocator keeps its blocks blockPos does not decrease;
\* blockPos is in the latest block; of two returned ranges the later lies
\* in the same block behind the earlier, or in a later block.
C17_CursorForward ==
    /\ (last.op # "none" /\ blocks = last.pre.blocks) => blockPos >= last.pre.blockPos
    /\ blocks # <<>> =>
          /\ blocks[Len(blocks)] <= blockPos
          /\ blockPos <= blocks[Len(blocks)] + blockSize
    /\ \A i \in RetIds : \E k \in DOMAIN blocks : InBlock(rets[i], k)
    /\ \A i, j \in RetIds : \A k, l \in DOMAIN blocks :
          (i < j /\ InBlock(rets[i], k) /\ InBlock(rets[j], l)) =>
             /\ k <= l
             /\ k = l => rets[i].result + rets[i].resultSize <= rets[j].result

\* the first block was left with two unused READ|WRITE pages, and the third
\* allocation, of one page, was placed in the second block
C17_Witness ==
    /\ Len(rets) = 3 /\ Len(blocks) = 2 /\ ~destroyed
    /\ InBlock(rets[1], 1) /\ InBlock(rets[2], 2) /\ InBlock(rets[3], 2)
    /\ rets[3].resultSize <= 2 * kPageSize
    /\ PagesOf(blocks[1] + 2 * kPageSize, 2 * kPageSize) \subseteq rw
\* ------------------------------------------------------------ block bounds --
\* a store or an attempted store of data or code bytes by allocate
CopyAttempts ==
    { k \in DOMAIN oslog :
        oslog[k].ev \in {"write", "fault"} /\ oslog[k].tag[1] \in {"data", "code"} }

\* C19: for every block size the constructor accepts, a multiple of the
\* page size or not, blockPos <= blockEnd after every successful allocate,
\* blockEnd - blockPos does not wrap around in the capacity test of a later
\* call, and every copy stays below the end of an owned block.
C19_CursorWithinBlock ==
    /\ (last.op = "allocate" /\ last.ok) => blockPos <= blockEnd
    /\ last.op = "allocate" => last.pre.blockPos <= last.pre.blockEnd
    /\ \A k \in CopyAttempts :
          \E b \in DOMAIN blocks :
             /\ blocks[b] <= oslog[k].addr
             /\ oslog[k].addr + oslog[k].len <= blocks[b] + blockSize

\* C20: a call of allocate gets past the size guard only if
\* roundUp16(dataSize) + codeSize, computed without wrap-around, is at most
\* blockSize - kMaxUnwindDataSize, and no copy is longer than that.
C20_GuardSound ==
    /\ last.op = "allocate" => (LastOversize => last.cause = "oversize")
    /\ \A k \in CopyAttempts : oslog[k].len <= blockSize - kMaxUnwindDataSize

\* C20 for the requests whose sizes do not wrap around
C20_WhenSizesDoNotWrap ==
    (/\ last.op = "allocate"
     /\ last.dataSize + 15 < SizeMod
     /\ Up16(last.dataSize) + last.codeSize < SizeMod)
    => (LastOversize => last.cause = "oversize")

\* C19 in the runs in which no reservation was refused
C19_WhenReservationsGranted == EveryReservationGranted => C19_CursorWithinBlock
====
